---- MODULE Spec2Model ----
(***************************************************************************)
(* airpnp: the AirPlay -> UPnP bridge.                                     *)
(*   src/airpnp/bridge.py         BridgeServer, AVControlPoint             *)
(*   src/airpnp/airplayserver.py  BaseResource.render                      *)
(*                                                                         *)
(* Python's None is the empty tuple <<>> and a present value x is <<x>>.   *)
(* Times are hundredths of a second; a start position fraction is a whole  *)
(* percentage, so duration * fraction is (duration * pct) \div 100, exact  *)
(* for the whole-second durations a device reports.                        *)
(***************************************************************************)
EXTENDS Integers, Sequences, FiniteSets, TLC

VARIABLES
    _ports,     \* BridgeServer._ports: the list of ports handed out
    services,   \* the named child services: UDN -> None | <<[port, cpoint]>>
    photoweb,   \* the resources the DynamicResourceServer has published
    iweb,       \* None, or <<the set of devices>> known to the InteractiveWeb
    last        \* the last handler call: inputs, remote calls, outcome

vars == <<_ports, services, photoweb, iweb, last>>

None == <<>>

----------------------------------------------------------------------------
(* Bounds and input sets *)

MaxPorts == 3           \* cap on Len(_ports)
NumUuids == 2           \* how many distinct uuid4 values photo() can draw

Devices == {"d1", "d2"}
TheDevice == "d1"       \* the device whose session the session specs drive

Uuids == 1..NumUuids
Clients == {[host |-> "h1", port |-> 1], [host |-> "h1", port |-> 2],
            [host |-> "h2", port |-> 1]}
Locations == {"u1"}
Fractions == {0, 50}                  \* percent
ScrubPositions == {3000}              \* 30 s
Speeds == {0, 100}                    \* 0.0 and 1.0
Datas == {<<255, 216, 0>>, <<0, 0>>}  \* image bytes
\* GetPositionInfo's <<TrackDuration, RelTime>>: 100 s and 60 s
PosInfos == {<<0, 0>>, <<10000, 0>>, <<10000, 6000>>}
TransportStates == {"PLAYING", "TRANSITIONING", "PAUSED_PLAYBACK"}
\* How the device answers one remote call: it succeeds, or it faults with
\* SOAP error 718 (invalid instance id) or with another code.
Outcomes == {"ok", "718", "501"}

----------------------------------------------------------------------------
(* The caller's context of one handler call.                               *)
(*   s       the AVControlPoint's fields                                   *)
(*   pub     the published resources                                       *)
(*   dev     the device's answers: script[i] is the outcome of the i-th    *)
(*           remote call, and the data its queries return                  *)
(*   calls   the remote calls made so far, each with the device's answer   *)
(*   raised  "none", or the exception in flight                            *)
(*   ret     the value returned                                            *)
(*   log     the level-1 messages about failures                           *)

AVControlPoint_init ==
    [_client |-> None, _instance_id |-> None, _uri |-> None,
     _pre_scrub |-> None, _position_pct |-> None, _photo |-> None]

Ctx(s, pub, dev) ==
    [s |-> s, pub |-> pub, dev |-> dev, calls |-> <<>>, raised |-> "none",
     ret |-> None, log |-> <<>>]

Raised(c) == c.raised # "none"

\* What the device returns: hms_to_sec of the position info's two times, the
\* transport info's CurrentTransportState.
Result(c, action, o) ==
    IF o # "ok" THEN None
    ELSE IF action = "GetPositionInfo" THEN c.dev.posinfo
    ELSE IF action = "GetTransportInfo" THEN <<c.dev.state>>
    ELSE None

\* self._avtransport.<action>(InstanceID=self._instance_id, ...)
Invoke(c, action, arg) ==
    LET o == c.dev.script[Len(c.calls) + 1]
    IN  [c EXCEPT !.calls = Append(@, [action |-> action,
                                       iid |-> c.s._instance_id,
                                       arg |-> arg,
                                       outcome |-> o,
                                       result |-> Result(c, action, o)]),
                  !.raised = IF o = "ok" THEN "none" ELSE o]

_allocate_instance_id(c) == "0"

_release_instance_id(c, instance_id) == c

\* Mutant: the busy check is missing.
client_setter_accepts_all(c, value) ==
    LET c1 == [c EXCEPT !.s._client = value]
    IN  IF value = None
        THEN _release_instance_id(c1, c1.s._instance_id)
        ELSE [c1 EXCEPT !.s._instance_id = <<_allocate_instance_id(c1)>>]

client_setter(c, value) ==
    IF value # None /\ c.s._client # None
       /\ value[1].host # c.s._client[1].host
    THEN [c EXCEPT !.raised = "ValueError",
                   !.log = Append(@, "Rejecting client")]
    ELSE LET c1 == [c EXCEPT !.s._client = value]
         IN  IF value = None
             THEN _release_instance_id(c1, c1.s._instance_id)
             ELSE [c1 EXCEPT !.s._instance_id = <<_allocate_instance_id(c1)>>]

\* The Seek is logged with the position it is made for; its Target is
\* sec_to_hms(position), a formatting done by util, outside these sources.
set_scrub(c, position) ==
    IF c.s._uri # None
    THEN Invoke(c, "Seek", position)
    ELSE [c EXCEPT !.s._pre_scrub = <<position>>]

\* Mutant: the percentage is not cleared once used.
_try_seek_pct_keeps_pct(c, duration, position) ==
    IF duration > 0
    THEN IF c.s._position_pct = None
         THEN [c EXCEPT !.raised = "TypeError"]
         ELSE LET targetoffset == (duration * c.s._position_pct[1]) \div 100
              IN  IF targetoffset > position
                  THEN set_scrub(c, targetoffset)
                  ELSE c
    ELSE c

\* _try_seek_pct that seeks to the target wherever the playback is.
_try_seek_pct_seeks_back(c, duration, position) ==
    IF duration > 0
    THEN IF c.s._position_pct = None
         THEN [c EXCEPT !.raised = "TypeError"]
         ELSE LET targetoffset == (duration * c.s._position_pct[1]) \div 100
                  c1 == [c EXCEPT !.s._position_pct = None]
              IN  set_scrub(c1, targetoffset)
    ELSE c

_try_seek_pct(c, duration, position) ==
    IF duration > 0
    THEN IF c.s._position_pct = None
         THEN [c EXCEPT !.raised = "TypeError"]   \* '%f' % None, duration * None
         ELSE LET targetoffset == (duration * c.s._position_pct[1]) \div 100
                  c1 == [c EXCEPT !.s._position_pct = None]
              IN  IF targetoffset > position
                  THEN set_scrub(c1, targetoffset)
                  ELSE c1
    ELSE c

get_scrub(c) ==
    LET c1 == Invoke(c, "GetPositionInfo", None)
    IN  IF Raised(c1) THEN c1
        ELSE IF c1.s._uri # None
        THEN LET duration == c1.dev.posinfo[1]
                 position == c1.dev.posinfo[2]
                 c2 == IF c1.s._position_pct # None
                       THEN _try_seek_pct(c1, duration, position)
                       ELSE c1
             IN  IF Raised(c2) THEN c2
                 ELSE [c2 EXCEPT !.ret = <<duration, position>>]
        ELSE [c1 EXCEPT !.ret = <<0, 0>>]

_get_current_transport_state(c) ==
    LET c1 == Invoke(c, "GetTransportInfo", None)
    IN  IF Raised(c1) THEN c1 ELSE [c1 EXCEPT !.ret = <<c1.dev.state>>]

is_playing(c) ==
    IF c.s._uri # None
    THEN LET c1 == _get_current_transport_state(c)
         IN  IF Raised(c1) THEN c1
             ELSE [c1 EXCEPT !.ret = <<c1.ret[1] = "PLAYING">>]
    ELSE [c EXCEPT !.ret = <<FALSE>>]

\* play that keeps the saved scrub position after it has sought to it.
play_keeps_pre_scrub(c, location, position) ==
    LET c1 == Invoke(c, "SetAVTransportURI", location)
        c2 == [c1 EXCEPT !.s._uri = <<location>>]
        c3 == Invoke(c2, "Play", "1")
        c4 == set_scrub(c3, c3.s._pre_scrub[1])
    IN  IF Raised(c1) THEN c1
        ELSE IF Raised(c3) THEN c3
        ELSE IF c3.s._pre_scrub # None
        THEN c4
        ELSE [c3 EXCEPT !.s._position_pct = <<position>>]

play(c, location, position) ==
    LET c1 == Invoke(c, "SetAVTransportURI", location)
        c2 == [c1 EXCEPT !.s._uri = <<location>>]
        c3 == Invoke(c2, "Play", "1")
        c4 == set_scrub(c3, c3.s._pre_scrub[1])
    IN  IF Raised(c1) THEN c1
        ELSE IF Raised(c3) THEN c3
        ELSE IF c3.s._pre_scrub # None
        THEN IF Raised(c4) THEN c4 ELSE [c4 EXCEPT !.s._pre_scrub = None]
        ELSE [c3 EXCEPT !.s._position_pct = <<position>>]

\* Mutant: a 718 is never retried.
_try_stop_no_retry(c, retries) ==
    LET c1 == Invoke(c, "Stop", None)
    IN  IF ~Raised(c1) THEN [c1 EXCEPT !.ret = <<TRUE>>]
        ELSE IF c1.raised = "718"
        THEN [c1 EXCEPT !.raised = "none", !.ret = <<FALSE>>]
        ELSE c1

\* _try_stop that retries whatever the fault code.
RECURSIVE _try_stop_retries_any(_, _)
_try_stop_retries_any(c, retries) ==
    LET c1 == Invoke(c, "Stop", None)
    IN  IF ~Raised(c1) THEN [c1 EXCEPT !.ret = <<TRUE>>]
        ELSE LET c2 == [c1 EXCEPT !.raised = "none"]
             IN  IF retries # 0
                 THEN _try_stop_retries_any(c2, retries - 1)
                 ELSE [c2 EXCEPT !.ret = <<FALSE>>]

RECURSIVE _try_stop(_, _)
_try_stop(c, retries) ==
    LET c1 == Invoke(c, "Stop", None)
    IN  IF ~Raised(c1) THEN [c1 EXCEPT !.ret = <<TRUE>>]
        ELSE IF c1.raised = "718"
        THEN LET c2 == [c1 EXCEPT !.raised = "none"]
             IN  IF retries # 0
                 THEN _try_stop(c2, retries - 1)
                 ELSE [c2 EXCEPT !.ret = <<FALSE>>]
        ELSE c1

unpublish(pub, name) == {r \in pub : r.name # name}

publish(pub, name, ctype) == unpublish(pub, name) \cup {[name |-> name, ctype |-> ctype]}

\* stop that unbinds the client before it stops the playback.
stop_unbinds_first(c) ==
    IF c.s._uri # None
    THEN LET c0 == client_setter(c, None)
             r  == _try_stop(c0, 1)
             c1 == IF r.ret[1]
                   THEN [r EXCEPT !.ret = None]
                   ELSE [r EXCEPT !.ret = None,
                                  !.log = Append(@, "Failed to stop playback")]
             c2 == [c1 EXCEPT !.s._uri = None]
         IN  IF Raised(r) THEN r
             ELSE IF c2.s._photo # None
             THEN [c2 EXCEPT !.pub = unpublish(@, c2.s._photo[1]),
                             !.s._photo = None]
             ELSE c2
    ELSE c

\* stop that cleans up whether or not media is loaded.
stop_always_cleans(c) ==
    LET r  == IF c.s._uri # None
              THEN _try_stop(c, 1)
              ELSE [c EXCEPT !.ret = <<TRUE>>]
        c1 == IF r.ret[1]
              THEN [r EXCEPT !.ret = None]
              ELSE [r EXCEPT !.ret = None,
                             !.log = Append(@, "Failed to stop playback")]
        c2 == [c1 EXCEPT !.s._uri = None]
        c3 == IF c2.s._photo # None
              THEN [c2 EXCEPT !.pub = unpublish(@, c2.s._photo[1]),
                              !.s._photo = None]
              ELSE c2
    IN  IF Raised(r) THEN r ELSE client_setter(c3, None)

stop(c) ==
    IF c.s._uri # None
    THEN LET r  == _try_stop(c, 1)
             c1 == IF r.ret[1]
                   THEN [r EXCEPT !.ret = None]
                   ELSE [r EXCEPT !.ret = None,
                                  !.log = Append(@, "Failed to stop playback")]
             c2 == [c1 EXCEPT !.s._uri = None]
             c3 == IF c2.s._photo # None
                   THEN [c2 EXCEPT !.pub = unpublish(@, c2.s._photo[1]),
                                   !.s._photo = None]
                   ELSE c2
         IN  IF Raised(r) THEN r ELSE client_setter(c3, None)
    ELSE c

reverse(c) == c

rate(c, speed) ==
    IF c.s._uri # None
    THEN IF speed \div 100 >= 1
         THEN LET c1 == _get_current_transport_state(c)
                  state == c1.ret[1]
                  c2 == IF state # "PLAYING" /\ state # "TRANSITIONING"
                        THEN Invoke([c1 EXCEPT !.ret = None], "Play", "1")
                        ELSE [c1 EXCEPT !.ret = None]
                  c3 == get_scrub(c2)
              IN  IF Raised(c1) THEN c1
                  ELSE IF Raised(c2) THEN c2
                  ELSE IF c2.s._position_pct # None
                  THEN IF Raised(c3) THEN c3
                       ELSE _try_seek_pct([c3 EXCEPT !.ret = None],
                                          c3.ret[1], c3.ret[2])
                  ELSE c2
         ELSE Invoke(c, "Pause", None)
    ELSE c

get_image_type(data) ==
    IF SubSeq(data, 1, IF Len(data) < 2 THEN Len(data) ELSE 2) = <<255, 216>>
    THEN <<"image/jpeg", ".jpg">>
    ELSE <<"image/unknown", ".bin">>

PhotoUri(name) == "http://host:port/" \o name

\* photo that leaves the photo published before it in place.
photo_keeps_previous(c, data, uuid) ==
    LET it   == get_image_type(data)
        name == ToString(uuid) \o it[2]
        c2 == [c EXCEPT !.pub = publish(@, name, it[1]),
                        !.s._photo = <<name>>]
        uri == PhotoUri(name)
        c3 == Invoke(c2, "SetAVTransportURI", uri)
        c4 == [c3 EXCEPT !.s._uri = <<uri>>]
    IN  IF Raised(c3) THEN c3 ELSE Invoke(c4, "Play", "1")

\* uuid: the decimal digit standing for the uuid4 value drawn.
photo(c, data, uuid) ==
    LET it   == get_image_type(data)
        name == ToString(uuid) \o it[2]
        c1 == IF c.s._photo # None
              THEN [c EXCEPT !.pub = unpublish(@, c.s._photo[1])]
              ELSE c
        c2 == [c1 EXCEPT !.pub = publish(@, name, it[1]),
                         !.s._photo = <<name>>]
        uri == PhotoUri(name)
        c3 == Invoke(c2, "SetAVTransportURI", uri)
        c4 == [c3 EXCEPT !.s._uri = <<uri>>]
    IN  IF Raised(c3) THEN c3 ELSE Invoke(c4, "Play", "1")

----------------------------------------------------------------------------
(* BaseResource.render: bind the request's client, then dispatch.          *)

\* resource.Resource.render(self, request): the resource's handler calls one
\* operation of self.ops.
Dispatch(c, op, args) ==
    CASE op = "get_scrub"  -> get_scrub(c)
      [] op = "is_playing" -> is_playing(c)
      [] op = "set_scrub"  -> set_scrub(c, args[1])
      [] op = "play"       -> play(c, args[1], args[2])
      [] op = "stop"       -> stop(c)
      [] op = "reverse"    -> reverse(c)
      [] op = "rate"       -> rate(c, args[1])
      [] op = "photo"      -> photo(c, args[1], args[2])

\* Mutant: a busy device still gets the request dispatched.
render_dispatches_when_busy(c, client, op, args) ==
    LET c1 == client_setter(c, <<client>>)
        c2 == Dispatch([c1 EXCEPT !.raised = "none"], op, args)
    IN  IF Raised(c1)
        THEN [c2 EXCEPT !.raised = "none", !.ret = <<503, None>>]
        ELSE IF Raised(c2)
        THEN [c2 EXCEPT !.raised = "none", !.ret = <<501, None>>,
                        !.log = Append(@, "Failed to process AirPlay request")]
        ELSE [c2 EXCEPT !.ret = <<200, c2.ret>>]

\* ret is <<response code, body>>; where render returns what the handler
\* built, the body is the operation's own result.
render(c, client, op, args) ==
    LET c1 == client_setter(c, <<client>>)
        c2 == Dispatch(c1, op, args)
    IN  IF Raised(c1)
        THEN [c1 EXCEPT !.raised = "none", !.ret = <<503, None>>]
        ELSE IF Raised(c2)
        THEN [c2 EXCEPT !.raised = "none", !.ret = <<501, None>>,
                        !.log = Append(@, "Failed to process AirPlay request")]
        ELSE [c2 EXCEPT !.ret = <<200, c2.ret>>]

----------------------------------------------------------------------------
(* BridgeServer *)

BasePort == 22555

RECURSIVE Probe(_, _)
Probe(ports, port) ==
    IF \E i \in 1..Len(ports) : ports[i] = port
    THEN Probe(ports, port + 1)
    ELSE port

\* Mutant: the port is counted up from the list's length, not probed.
_find_port_by_length(ports) ==
    <<Append(ports, BasePort + Len(ports)), BasePort + Len(ports)>>

\* returns <<the new _ports, the port>>
_find_port(ports) ==
    LET port == Probe(ports, BasePort)
    IN  <<Append(ports, port), port>>

\* ListRemove that drops the last port of the list, whichever it is.
ListRemove_last(ports, x) == SubSeq(ports, 1, Len(ports) - 1)

\* list.remove(x): drops the first occurrence
ListRemove(ports, x) ==
    LET i == CHOOSE k \in 1..Len(ports) :
                 ports[k] = x /\ \A j \in 1..(k - 1) : ports[j] # x
    IN  SubSeq(ports, 1, i - 1) \o SubSeq(ports, i + 1, Len(ports))

NoCall == [op |-> "init", udn |-> "", args |-> <<>>, script |-> <<>>,
           calls |-> <<>>, raised |-> "none", ret |-> None, log |-> <<>>]

\* BridgeServer.__init__: no device yet; the interactive web is configured
\* or not.
Init ==
    /\ _ports = <<>>
    /\ services = [d \in Devices |-> None]
    /\ photoweb = {}
    /\ iweb \in {None, <<{}>>}
    /\ last = NoCall

on_device_found(device) ==
    /\ Len(_ports) < MaxPorts
    /\ LET fp == _find_port(_ports)
       IN  /\ _ports' = fp[1]
           /\ IF services[device] # None
              THEN \* setServiceParent: a service of that name is registered
                   /\ last' = [NoCall EXCEPT !.op = "on_device_found",
                                             !.udn = device,
                                             !.raised = "RuntimeError"]
                   /\ UNCHANGED <<services, iweb>>
              ELSE /\ services' = [services EXCEPT ![device] =
                          <<[port |-> fp[2], cpoint |-> AVControlPoint_init]>>]
                   /\ iweb' = IF iweb # None
                              THEN <<iweb[1] \cup {device}>>
                              ELSE iweb
                   /\ last' = [NoCall EXCEPT !.op = "on_device_found",
                                             !.udn = device,
                                             !.ret = <<fp[2]>>]
    /\ UNCHANGED photoweb

\* on_device_removed that returns quietly when the device is not registered.
on_device_removed_quiet(device) ==
    /\ IF services[device] = None
       THEN /\ last' = [NoCall EXCEPT !.op = "on_device_removed",
                                      !.udn = device]
            /\ UNCHANGED <<_ports, services, iweb>>
       ELSE LET avc == services[device][1]
            IN  /\ services' = [services EXCEPT ![device] = None]
                /\ _ports' = ListRemove(_ports, avc.port)
                /\ iweb' = IF iweb # None
                           THEN <<iweb[1] \ {device}>>
                           ELSE iweb
                /\ last' = [NoCall EXCEPT !.op = "on_device_removed",
                                          !.udn = device,
                                          !.ret = <<avc.port>>]
    /\ UNCHANGED photoweb

on_device_removed(device) ==
    /\ IF services[device] = None
       THEN \* getServiceNamed: KeyError
            /\ last' = [NoCall EXCEPT !.op = "on_device_removed",
                                      !.udn = device, !.raised = "KeyError"]
            /\ UNCHANGED <<_ports, services, iweb>>
       ELSE LET avc == services[device][1]
            IN  /\ services' = [services EXCEPT ![device] = None]
                /\ _ports' = ListRemove(_ports, avc.port)
                /\ iweb' = IF iweb # None
                           THEN <<iweb[1] \ {device}>>
                           ELSE iweb
                /\ last' = [NoCall EXCEPT !.op = "on_device_removed",
                                          !.udn = device,
                                          !.ret = <<avc.port>>]
    /\ UNCHANGED photoweb

----------------------------------------------------------------------------
(* Calls on the AVControlPoint of a live device *)

\* The outcomes of up to n remote calls with at most one fault among them:
\* a fault ends every operation but stop's retry, and nothing but _try_stop
\* reads a fault's code, so one code stands for all of them.
FaultScripts(n) ==
    {s \in [1..n -> {"ok", "501"}] :
        \A i, j \in 1..n : (i < j /\ s[i] # "ok") => s[j] = "ok"}

\* The outcomes of three Stop calls: 718 some times, then what ends it.
StopScripts ==
    {s \in [1..3 -> Outcomes] :
        \A i, j \in 1..3 : (i < j /\ s[i] # "718") => s[j] = "ok"}

Answers(scripts, posinfos, states) ==
    [script : scripts, posinfo : posinfos, state : states]

\* The device's possible answers to the remote calls of one operation.
AnswersFor(op, args) ==
    CASE op = "get_scrub"  -> Answers(FaultScripts(2), PosInfos, {"PLAYING"})
      [] op = "is_playing" -> Answers(FaultScripts(1), {<<0, 0>>}, TransportStates)
      [] op = "set_scrub"  -> Answers(FaultScripts(1), {<<0, 0>>}, {"PLAYING"})
      [] op = "play"       -> Answers(FaultScripts(3), {<<0, 0>>}, {"PLAYING"})
      [] op = "stop"       -> Answers(StopScripts, {<<0, 0>>}, {"PLAYING"})
      [] op = "reverse"    -> Answers(FaultScripts(0), {<<0, 0>>}, {"PLAYING"})
      [] op = "rate"       -> IF args[1] \div 100 >= 1
                              THEN Answers(FaultScripts(4), PosInfos, TransportStates)
                              ELSE Answers(FaultScripts(1), {<<0, 0>>}, {"PLAYING"})
      [] op = "photo"      -> Answers(FaultScripts(2), {<<0, 0>>}, {"PLAYING"})
      [] op = "client"     -> Answers(FaultScripts(0), {<<0, 0>>}, {"PLAYING"})

\* uuid4 draws a value no published resource carries.
FreshUuids(pub) ==
    {u \in Uuids : \A r \in pub :
        r.name # ToString(u) \o ".jpg" /\ r.name # ToString(u) \o ".bin"}

ArgsFor(op, pub, datas) ==
    CASE op = "set_scrub" -> {<<p>> : p \in ScrubPositions}
      [] op = "play"      -> Locations \X Fractions
      [] op = "rate"      -> {<<v>> : v \in Speeds}
      [] op = "photo"     -> datas \X FreshUuids(pub)
      [] OTHER            -> {<<>>}

Live(device) == services[device] # None

cpoint(device) == services[device][1].cpoint

\* last.script keeps, for a stop, the outcomes the device held ready for its
\* Stop calls, made or not.
IsStop(op, args) == op = "stop" \/ (op = "render" /\ args[2] = "stop")

Commit(device, op, args, c) ==
    /\ services' = [services EXCEPT ![device] =
                       <<[services[device][1] EXCEPT !.cpoint = c.s]>>]
    /\ photoweb' = c.pub
    /\ last' = [op |-> op, udn |-> device, args |-> args,
                script |-> IF IsStop(op, args) THEN c.dev.script ELSE None,
                calls |-> c.calls, raised |-> c.raised, ret |-> c.ret,
                log |-> c.log]
    /\ UNCHANGED <<_ports, iweb>>

Start(device, dev) == Ctx(cpoint(device), photoweb, dev)

SetClient(device) ==
    /\ Live(device)
    /\ \E value \in {None} \cup {<<cl>> : cl \in Clients} :
       \E dev \in AnswersFor("client", <<value>>) :
          Commit(device, "client", <<value>>,
                 client_setter(Start(device, dev), value))

\* A direct call of one operation of the AVControlPoint.
Call(device, op, args, dev) ==
    Commit(device, op, args, Dispatch(Start(device, dev), op, args))

GetScrub(device) ==
    /\ Live(device)
    /\ \E dev \in AnswersFor("get_scrub", <<>>) :
          Call(device, "get_scrub", <<>>, dev)

IsPlaying(device) ==
    /\ Live(device)
    /\ \E dev \in AnswersFor("is_playing", <<>>) :
          Call(device, "is_playing", <<>>, dev)

SetScrub(device) ==
    /\ Live(device)
    /\ \E args \in ArgsFor("set_scrub", photoweb, Datas) :
       \E dev \in AnswersFor("set_scrub", args) :
          Call(device, "set_scrub", args, dev)

Play(device) ==
    /\ Live(device)
    /\ \E args \in ArgsFor("play", photoweb, Datas) :
       \E dev \in AnswersFor("play", args) :
          Call(device, "play", args, dev)

Stop(device) ==
    /\ Live(device)
    /\ \E dev \in AnswersFor("stop", <<>>) :
          Call(device, "stop", <<>>, dev)

Reverse(device) ==
    /\ Live(device)
    /\ \E dev \in AnswersFor("reverse", <<>>) :
          Call(device, "reverse", <<>>, dev)

Rate(device) ==
    /\ Live(device)
    /\ \E args \in ArgsFor("rate", photoweb, Datas) :
       \E dev \in AnswersFor("rate", args) :
          Call(device, "rate", args, dev)

Photo(device) ==
    /\ Live(device)
    /\ \E args \in ArgsFor("photo", photoweb, Datas) :
       \E dev \in AnswersFor("photo", args) :
          Call(device, "photo", args, dev)

Operations == {"get_scrub", "is_playing", "set_scrub", "play", "stop",
               "reverse", "rate", "photo"}

\* One request to the endpoint of a device.
Request(device, client, op, args, dev) ==
    Commit(device, "render", <<client, op, args>>,
           render(Start(device, dev), client, op, args))

EndpointClients == {cl \in Clients : cl.port = 1}

\* The photos that arrive in requests are JPEGs.
JpegDatas == {d \in Datas : get_image_type(d)[2] = ".jpg"}

\* A request for any operation, from a client of either host.
Render(device) ==
    /\ Live(device)
    /\ \E client \in EndpointClients : \E op \in Operations :
       \E args \in ArgsFor(op, photoweb, JpegDatas) : \E dev \in AnswersFor(op, args) :
          Request(device, client, op, args, dev)

BridgeClients == {cl \in Clients : cl.host = "h1" /\ cl.port = 1}

\* A request that shows a JPEG photo.
ShowPhoto(device) ==
    /\ Live(device)
    /\ \E client \in BridgeClients : \E data \in JpegDatas :
       \E uuid \in FreshUuids(photoweb) :
       \E dev \in AnswersFor("photo", <<data, uuid>>) :
          Request(device, client, "photo", <<data, uuid>>, dev)

----------------------------------------------------------------------------
(* Specifications *)

\* The state once the bridge has found TheDevice.
InitSession ==
    /\ _ports = _find_port(<<>>)[1]
    /\ services = [d \in Devices |->
                      IF d = TheDevice
                      THEN <<[port |-> _find_port(<<>>)[2],
                              cpoint |-> AVControlPoint_init]>>
                      ELSE None]
    /\ photoweb = {}
    /\ iweb = None
    /\ last = [NoCall EXCEPT !.op = "on_device_found", !.udn = TheDevice,
                             !.ret = <<_find_port(<<>>)[2]>>]

\* One AVControlPoint, its operations called directly.
Next ==
    \/ SetClient(TheDevice)
    \/ GetScrub(TheDevice)
    \/ IsPlaying(TheDevice)
    \/ SetScrub(TheDevice)
    \/ Play(TheDevice)
    \/ Stop(TheDevice)
    \/ Reverse(TheDevice)
    \/ Rate(TheDevice)
    \/ Photo(TheDevice)

Spec == InitSession /\ [][Next]_vars

\* One AVControlPoint behind its endpoint: every operation arrives as a
\* request.
NextEndpoint == Render(TheDevice)

SpecEndpoint == InitSession /\ [][NextEndpoint]_vars

\* The bridge: devices come and go while a client shows photos.
NextBridge ==
    \/ \E device \in Devices : on_device_found(device)
    \/ \E device \in Devices : on_device_removed(device)
    \/ \E device \in Devices : ShowPhoto(device)

SpecBridge == Init /\ [][NextBridge]_vars

\* A device that is not registered is found.
DeviceFound(device) ==
    /\ ~Live(device)
    /\ on_device_found(device)

\* A device that is registered is lost.
DeviceLost(device) ==
    /\ Live(device)
    /\ on_device_removed(device)

\* The bridge under a well-formed discovery: every found event is for a
\* device that is not registered, every lost event for one that is.
NextLifecycle ==
    \/ \E device \in Devices : DeviceFound(device)
    \/ \E device \in Devices : DeviceLost(device)
    \/ \E device \in Devices : ShowPhoto(device)

SpecLifecycle == Init /\ [][NextLifecycle]_vars

----------------------------------------------------------------------------
(* Properties *)

\* The AVControlPoint of TheDevice.
S == cpoint(TheDevice)

SeekCalls(calls) == {i \in 1..Len(calls) : calls[i].action = "Seek"}

\* A fault left the operation: the last remote call faulted, and it was not
\* a 718 that _try_stop answers itself.
FaultEscaped(calls) ==
    /\ Len(calls) > 0
    /\ calls[Len(calls)].outcome # "ok"
    /\ ~(calls[Len(calls)].action = "Stop" /\ calls[Len(calls)].outcome = "718")

\* C1: at every moment the instance id is set if and only if a client is
\* bound; after a bind and an unbind the instance id is empty again.
C1_InstanceIdIffClient ==
    (S._instance_id # None) <=> (S._client # None)

\* C2: setting a client whose host differs from the bound client's raises
\* "device busy" and changes no field of the session nor the published
\* resources; every other bind succeeds and binds that client.
C2_BusyRejection ==
    [][(last'.op = "client" /\ last'.args[1] # None) =>
         IF S._client # None /\ last'.args[1][1].host # S._client[1].host
         THEN /\ last'.raised = "ValueError"
              /\ S' = S
              /\ photoweb' = photoweb
         ELSE /\ last'.raised = "none"
              /\ S'._client = last'.args[1]]_vars

\* A client of another host has just been rejected by a session that is
\* bound and has media loaded.
C2_Witness ==
    /\ last.op = "client"
    /\ last.raised = "ValueError"
    /\ S._client # None
    /\ last.args[1][1].host # S._client[1].host
    /\ S._uri # None

\* C3: a request of a client the session is busy for is answered 503, and
\* then no remote call is made and nothing changes; any other request is
\* answered 501 when a fault left the dispatched operation, and 200 or 501
\* otherwise; no exception leaves render.
C3_RenderOutcomes ==
    [][last'.op = "render" =>
         LET busy == S._client # None
                     /\ last'.args[1].host # S._client[1].host
         IN  /\ last'.raised = "none"
             /\ busy => /\ last'.ret[1] = 503
                        /\ last'.calls = <<>>
                        /\ S' = S
                        /\ photoweb' = photoweb
             /\ ~busy => /\ last'.ret[1] \in {200, 501}
                         /\ S'._client \in {<<last'.args[1]>>, None}
                         /\ FaultEscaped(last'.calls) => last'.ret[1] = 501
                         /\ last'.ret[1] = 200 => ~FaultEscaped(last'.calls)]_vars

\* A request has just been turned away with 503 while media is loaded for
\* another client.
C3_Witness ==
    /\ last.op = "render"
    /\ last.ret[1] = 503
    /\ S._uri # None
    /\ S._client # None
    /\ last.args[1].host # S._client[1].host

\* A request whose operation faulted has just been answered 501.
C3_WitnessFailed ==
    /\ last.op = "render"
    /\ last.ret[1] = 501
    /\ FaultEscaped(last.calls)

\* C4: whatever the device answers to Stop, a stop() with media loaded ends
\* with no media loaded, the session's photo unpublished and no client bound.
C4_StopAlwaysIdle ==
    [][(last'.op = "stop" /\ S._uri # None) =>
         /\ S'._uri = None
         /\ S'._client = None
         /\ S._photo # None => \A r \in photoweb' : r.name # S._photo[1]]_vars

StopCleanedUp ==
    /\ last.raised = "none"
    /\ S._uri = None
    /\ S._client = None
    /\ S._photo = None

\* C5, as claimed: when the device holds 718, 718, ok ready for the Stop
\* calls of a stop() with media loaded, the third Stop is made and succeeds,
\* and the cleanup completes without an error.
C5_ThirdAttemptMade ==
    (last.op = "stop" /\ Len(last.calls) > 0
     /\ last.script = <<"718", "718", "ok">>) =>
        /\ Len(last.calls) = 3
        /\ last.calls[3].outcome = "ok"
        /\ StopCleanedUp

\* C5, amended: a stop() with media loaded makes at most two Stop calls.
\* When the first faults with 718 and the second succeeds, the second is
\* made, nothing is logged as failed and the cleanup completes without an
\* error; when both fault with 718 no third is made, the failure is logged
\* and the cleanup still completes without an error.
C5_RetryBudget ==
    (last.op = "stop" /\ Len(last.calls) > 0) =>
        /\ Len(last.calls) <= 2
        /\ (last.script[1] = "718" /\ last.script[2] = "ok") =>
              /\ Len(last.calls) = 2
              /\ last.calls[2].outcome = "ok"
              /\ last.log = <<>>
              /\ StopCleanedUp
        /\ (last.script[1] = "718" /\ last.script[2] = "718") =>
              /\ Len(last.calls) = 2
              /\ last.log = <<"Failed to stop playback">>
              /\ StopCleanedUp

\* A stop() has ended after two 718 faults although a third Stop would have
\* succeeded.
C5_Witness ==
    /\ last.op = "stop"
    /\ last.script = <<"718", "718", "ok">>
    /\ Len(last.calls) = 2
    /\ StopCleanedUp

\* A stop() has succeeded on its second Stop.
C5_WitnessRetried ==
    /\ last.op = "stop"
    /\ last.script[1] = "718"
    /\ Len(last.calls) = 2
    /\ last.calls[2].outcome = "ok"
    /\ StopCleanedUp

\* C6: get_scrub() with no media loaded returns (0, 0) and makes no remote
\* call.
C6_NoRemoteCallWithoutMedia ==
    (last.op = "get_scrub" /\ S._uri = None) =>
        /\ last.ret = <<0, 0>>
        /\ last.calls = <<>>

\* C7: play() without a saved scrub position leaves its fraction f pending,
\* and nothing else sets a pending fraction; a get_scrub() that finds media
\* loaded and f pending and observes a duration D > 0 and a position below
\* D * f makes exactly one Seek, to D * f, and clears the fraction; a
\* get_scrub() that finds no fraction pending makes no Seek.
C7_SeekOnce ==
    [][/\ (last'.op = "play" /\ last'.raised = "none" /\ S._pre_scrub = None) =>
              S'._position_pct = <<last'.args[2]>>
       /\ (S'._position_pct # None /\ S'._position_pct # S._position_pct) =>
              last'.op = "play"
       /\ last'.op = "get_scrub" =>
            LET calls == last'.calls
                observed == Len(calls) >= 1 /\ calls[1].outcome = "ok"
                D == calls[1].result[1]
                P == calls[1].result[2]
            IN  /\ (S._uri # None /\ S._position_pct # None /\ observed
                    /\ D > 0 /\ P * 100 < D * S._position_pct[1]) =>
                       /\ SeekCalls(calls) = {2}
                       /\ calls[2].arg * 100 = D * S._position_pct[1]
                       /\ S'._position_pct = None
                /\ S._position_pct = None =>
                       /\ SeekCalls(calls) = {}
                       /\ S'._position_pct = None]_vars

\* A get_scrub() has observed a duration of 100 s at position 0 and sought
\* to 50 s, once, and no fraction is pending any more.
C7_Witness ==
    /\ last.op = "get_scrub"
    /\ Len(last.calls) = 2
    /\ last.calls[1].result = <<10000, 0>>
    /\ SeekCalls(last.calls) = {2}
    /\ last.calls[2].arg = 5000
    /\ S._position_pct = None

\* C8: a play() that finds a saved scrub position p sets the URI, plays,
\* seeks to p, clears the saved position and leaves no fraction pending, so
\* that no percentage is applied to this playback.
C8_NoPercentageAfterSavedScrub ==
    [][(last'.op = "play" /\ last'.raised = "none" /\ S._pre_scrub # None) =>
         /\ Len(last'.calls) = 3
         /\ last'.calls[1].action = "SetAVTransportURI"
         /\ last'.calls[3].action = "Seek"
         /\ last'.calls[3].arg = S._pre_scrub[1]
         /\ S'._pre_scrub = None
         /\ S'._position_pct = None]_vars

\* C9: no two live sessions have the same port.
C9_NoSharedPort ==
    \A a, b \in Devices :
        (a # b /\ Live(a) /\ Live(b)) =>
            services[a][1].port # services[b][1].port

\* A session has just been given the base port while another live session
\* holds a higher one: the base port was released and is in use again.
C9_Witness ==
    /\ last.op = "on_device_found"
    /\ last.ret = <<BasePort>>
    /\ \E d \in Devices \ {last.udn} :
          Live(d) /\ services[d][1].port > BasePort

InList(ports, port) == \E i \in 1..Len(ports) : ports[i] = port

\* C10: when a known device is lost its port leaves the pool and the photo
\* its session has published is unpublished.
C10_TeardownUnpublishes ==
    [][(last'.op = "on_device_removed" /\ Live(last'.udn)) =>
         /\ ~InList(_ports', services[last'.udn][1].port)
         /\ cpoint(last'.udn)._photo # None =>
               \A r \in photoweb' : r.name # cpoint(last'.udn)._photo[1]]_vars

\* C11: an on_device_found() for a device that is already registered
\* allocates no second port and no second session: the port pool and the
\* live endpoints are what they were before it.
C11_DuplicateFoundChangesNothing ==
    [][(last'.op = "on_device_found" /\ Live(last'.udn)) =>
         /\ _ports' = _ports
         /\ services' = services]_vars

\* C12: an on_device_removed() for a device that is not registered raises
\* an error and leaves the port pool, the live endpoints and the interactive
\* web's device list as they were.
C12_UnknownLostFailsLoudly ==
    [][(last'.op = "on_device_removed" /\ ~Live(last'.udn)) =>
         /\ last'.raised # "none"
         /\ _ports' = _ports
         /\ services' = services
         /\ iweb' = iweb]_vars

\* The loss of a device that is not registered has raised KeyError while
\* another device is live and holds its port.
C12_Witness ==
    /\ last.op = "on_device_removed"
    /\ ~Live(last.udn)
    /\ last.raised = "KeyError"
    /\ \E d \in Devices : Live(d) /\ InList(_ports, services[d][1].port)

\* C13: when every operation arrives as a request to the endpoint, which
\* binds the request's client before it dispatches, a media URI is loaded
\* only while a client is bound, whether the remote calls succeed or fault.
C13_MediaOnlyWhileBound ==
    S._uri # None => S._client # None

\* A stop request has failed on a fault of the remote Stop: the media URI
\* is still loaded and the client is still bound.
C13_Witness ==
    /\ last.op = "render"
    /\ last.args[2] = "stop"
    /\ last.ret[1] = 501
    /\ S._uri # None
    /\ S._client # None

StopOutcomes(calls) == [i \in 1..Len(calls) |-> calls[i].outcome]

\* C14: a stop() in which the remote Stop faults with a code other than
\* 718 has called Stop exactly once and has raised that fault to its caller.
C14_OtherFaultSingleStop ==
    (last.op = "stop" /\ \E i \in 1..Len(last.calls) :
                            last.calls[i].outcome \notin {"ok", "718"}) =>
        /\ Len(last.calls) = 1
        /\ last.raised = last.calls[1].outcome

\* C14, amended: a Stop that faults with a code other than 718 is the last
\* Stop of its stop() call and its fault is raised to the caller; it is the
\* only Stop when it is the first attempt, and the second when the first
\* attempt faulted with 718.
C14_OtherFaultNotRetried ==
    last.op = "stop" =>
        \A i \in 1..Len(last.calls) :
            last.calls[i].outcome \notin {"ok", "718"} =>
                /\ i = Len(last.calls)
                /\ last.raised = last.calls[i].outcome
                /\ i <= 2
                /\ i = 2 => last.calls[1].outcome = "718"
                /\ last.script[1] # "718" => i = 1

\* A stop() has raised the fault 501 of its first and only Stop, which the
\* device would have let succeed had it been tried again.
C14_Witness ==
    /\ last.op = "stop"
    /\ last.script = <<"501", "ok", "ok">>
    /\ StopOutcomes(last.calls) = <<"501">>
    /\ last.raised = "501"

\* C15: a rate() at a speed of 1 or more with media loaded queries the
\* transport state and calls Play exactly when that state is neither
\* PLAYING nor TRANSITIONING; when a fraction is pending and the device
\* reports a duration above 0 the fraction is cleared with at most one Seek
\* and, no remote call having faulted, rate() returns without raising. A
\* rate() at a speed below 1 with media loaded makes one remote call, Pause.
C15_RateResolvesAndReturns ==
    [][(last'.op = "rate" /\ S._uri # None) =>
         LET calls == last'.calls
             Made(action) == {i \in 1..Len(calls) : calls[i].action = action}
         IN  IF last'.args[1] \div 100 >= 1
             THEN /\ Made("GetTransportInfo") = {1}
                  /\ calls[1].outcome = "ok" =>
                       /\ Made("Play") # {} <=>
                             calls[1].result[1] \notin {"PLAYING", "TRANSITIONING"}
                       /\ (/\ S._position_pct # None
                           /\ \E i \in Made("GetPositionInfo") :
                                 /\ calls[i].outcome = "ok"
                                 /\ calls[i].result[1] > 0) =>
                             /\ S'._position_pct = None
                             /\ Cardinality(SeekCalls(calls)) <= 1
                             /\ ~FaultEscaped(calls) => last'.raised = "none"
             ELSE /\ Len(calls) = 1
                  /\ calls[1].action = "Pause"]_vars

\* The remote calls of the operation from its GetPositionInfo on.
FromPositionInfo(calls) ==
    LET k == CHOOSE i \in 1..Len(calls) : calls[i].action = "GetPositionInfo"
    IN  SubSeq(calls, k, Len(calls))

\* C16: when a get_scrub() or a rate() with media loaded and a fraction f
\* pending observes a duration D and a position P, then for D > 0 the
\* fraction is cleared whether or not a Seek is made, and a Seek is made,
\* to D * f, exactly when D * f > P; for D = 0 the fraction is kept and no
\* Seek is made.
C16_SeekResolution ==
    [][(/\ last'.op \in {"get_scrub", "rate"}
        /\ S._uri # None
        /\ S._position_pct # None
        /\ \E i \in 1..Len(last'.calls) :
              /\ last'.calls[i].action = "GetPositionInfo"
              /\ last'.calls[i].outcome = "ok") =>
         LET calls == FromPositionInfo(last'.calls)
             D == calls[1].result[1]
             P == calls[1].result[2]
             f == S._position_pct[1]
         IN  IF D > 0
             THEN /\ S'._position_pct = None
                  /\ SeekCalls(calls) # {} <=> D * f > P * 100
                  /\ SeekCalls(calls) # {} =>
                        /\ SeekCalls(calls) = {2}
                        /\ calls[2].arg * 100 = D * f
             ELSE /\ S'._position_pct = S._position_pct
                  /\ SeekCalls(calls) = {}]_vars

\* A rate() that found a fraction pending, and so queried the position,
\* has observed a duration of 100 s at 60 s, past the fraction's target:
\* the fraction has been cleared and no Seek has been made.
C16_Witness ==
    /\ last.op = "rate"
    /\ \E i \in 1..Len(last.calls) :
          /\ last.calls[i].action = "GetPositionInfo"
          /\ last.calls[i].result = <<10000, 6000>>
    /\ SeekCalls(last.calls) = {}
    /\ S._uri # None
    /\ S._position_pct = None

\* C17: a stop() with no media loaded makes no remote call, raises nothing
\* and changes no field of the session and nothing that is published; a
\* client that is bound stays bound, so that binding a client of another
\* host still raises ValueError.
C17_StopWithoutMediaIsNoOp ==
    [][(last'.op = "stop" /\ S._uri = None) =>
         /\ last'.calls = <<>>
         /\ last'.raised = "none"
         /\ S' = S
         /\ photoweb' = photoweb
         /\ \A cl \in Clients :
               (S._client # None /\ cl.host # S._client[1].host) =>
                  client_setter(Ctx(S', photoweb', [script |-> <<>>]),
                                <<cl>>).raised = "ValueError"]_vars

\* A stop() has just returned without a remote call on a session that has
\* a client bound, a saved scrub position and no media loaded.
C17_Witness ==
    /\ last.op = "stop"
    /\ last.calls = <<>>
    /\ S._uri = None
    /\ S._client # None
    /\ S._pre_scrub # None

\* C18: when a play() has returned without raising, exactly one of the
\* saved scrub position and the pending fraction is set.
C18_ExactlyOnePendingSeek ==
    (last.op = "play" /\ last.raised = "none") =>
        (S._pre_scrub # None) # (S._position_pct # None)

\* C18, amended: when a play() has returned without raising, no scrub
\* position is saved any more, so the two are never both set; a play() that
\* found no saved position leaves its fraction pending, and a play() that
\* found one has sought to it and leaves the fraction as it was, pending or
\* not.
C18_SavedScrubConsumed ==
    [][(last'.op = "play" /\ last'.raised = "none") =>
         /\ S'._pre_scrub = None
         /\ IF S._pre_scrub = None
            THEN S'._position_pct = <<last'.args[2]>>
            ELSE /\ SeekCalls(last'.calls) = {3}
                 /\ last'.calls[3].arg = S._pre_scrub[1]
                 /\ S'._position_pct = S._position_pct]_vars

\* A play() has sought to the saved scrub position: neither a saved
\* position nor a fraction is pending.
C18_Witness ==
    /\ last.op = "play"
    /\ last.raised = "none"
    /\ SeekCalls(last.calls) = {3}
    /\ S._pre_scrub = None
    /\ S._position_pct = None

LivePorts == {services[d][1].port : d \in {e \in Devices : Live(e)}}

PoolPorts == {_ports[i] : i \in 1..Len(_ports)}

\* C19: when devices are found only while not registered and lost only
\* while registered, the port pool holds exactly the ports of the live
\* endpoints, each of them once, and the port a found event allocates is
\* the smallest port from 22555 up that was not in the pool.
C19_PoolIsLivePorts ==
    /\ PoolPorts = LivePorts
    /\ Cardinality(PoolPorts) = Len(_ports)
    /\ Cardinality(LivePorts) = Cardinality({d \in Devices : Live(d)})
    /\ (last.op = "on_device_found") =>
          /\ last.raised = "none"
          /\ last.ret[1] >= BasePort
          /\ \A q \in BasePort..(last.ret[1] - 1) : q \in PoolPorts \ {last.ret[1]}

\* The device that held the base port was lost and a device found after
\* that: it has been given the base port, below the port of the endpoint
\* that stayed live, and both ports are in the pool.
C19_Witness ==
    /\ last.op = "on_device_found"
    /\ last.ret = <<BasePort>>
    /\ _ports = <<BasePort + 1, BasePort>>
    /\ LivePorts = {BasePort, BasePort + 1}

\* C20: the session has at most one photo published at any time, and none
\* when _photo is unset: what is published is the photo _photo names, and
\* after a photo() it is the new photo alone, the one published before it
\* having been unpublished.
C20_AtMostOnePublished ==
    /\ Cardinality(photoweb) <= 1
    /\ S._photo = None => photoweb = {}
    /\ \A r \in photoweb : S._photo = <<r.name>>
    /\ last.op = "photo" =>
          /\ S._photo # None
          /\ {r.name : r \in photoweb} = {S._photo[1]}

\* A photo() has published a second photo while the URI of the first one
\* was loaded, and its SetAVTransportURI has faulted: the first photo's URI
\* is still loaded and the second photo alone is published.
C20_Witness ==
    /\ last.op = "photo"
    /\ last.raised # "none"
    /\ \E u \in Uuids :
          /\ S._uri = <<PhotoUri(ToString(u) \o ".jpg")>>
          /\ S._photo # <<ToString(u) \o ".jpg">>
    /\ Cardinality(photoweb) = 1
    /\ \A r \in photoweb : S._photo = <<r.name>>

====
